---- MODULE Spec2Model ----
(***************************************************************************)
(* Model of the leaderboard benchmark harness (scripts/performance_test.py)*)
(* and of the provider state it measures: one PerformanceTester session on *)
(* one connection with autocommit off; and of the data generator           *)
(* (scripts/populate_data.py) that loads the population it measures.       *)
(***************************************************************************)
EXTENDS Integers, Sequences, FiniteSets, TLC

(* ------------------------------ bounds --------------------------------- *)
MaxUserId     == 2      \* ids of the harness population are drawn from 1..MaxUserId
MaxIterations == 2      \* --iterations is drawn from 0..MaxIterations
MaxUserSample == 2      \* --users-sample: MaxUserSample for main(), 0..MaxUserSample for direct calls
MaxRankUsers  == 5      \* size of the populations of the rank-query specification
MaxCalls      == 1      \* benchmarks a client calls directly on one tester
MaxCount      == 3      \* --users of populate_data.py is drawn from 0..MaxCount
MaxSample     == 4      \* a list of measured durations has 0..MaxSample entries
MaxExisting   == 1      \* users an earlier run of populate_data.py has left

(* --------------------------- input domains ----------------------------- *)
InitScores   == {500}               \* initial scores of the harness population
RankScores   == {400, 500, 600}     \* scores of the rank-query populations
Deltas       == {10, 500}           \* random.randint(10, 500): both ends
TrialDurations == {2}              \* elapsed milliseconds measured by a harness trial
WarmUpIterations == 10              \* warm_up_queries(iterations: int = 10)

\* generate_usernames: one prefix and one suffix of the two lists, and the ends
\* of the random.randint ranges that make the templates collide
Prefixes      == {"Pro"}
Suffixes      == {<<"2", "0", "2", "3">>}
PrefixNumbers == {1, 20231}         \* random.randint(1, 99999)
SuffixNumbers == {1}                \* random.randint(1, 999)
UserNumbers   == {100}              \* random.randint(100, 99999)

\* generate_scores: floats drawn by numpy, in tenths (-3005 is -300.5)
Distributions    == {"normal", "skewed", "uniform", "exponential"}
OtherDistributions == {"pareto"}    \* a kind generate_scores does not support
NormalDraws      == {-3005, 5006}   \* np.random.normal(1000, 300): any real
ExponentialDraws == {4, 5006}       \* np.random.exponential: reals >= 0
UniformDraws     == {0, 5006}       \* np.random.uniform(0, 5000)
Bonuses          == {5000, 15000}   \* random.randint(5000, 15000): both ends
LargeCounts      == {200}           \* a count with more than one pro player
BatchSizes       == {1, 2}          \* --batch-size
GamesPlayed      == {1}             \* random.randint(1, 100)

VARIABLES
    users,          \* users table: user_id -> is_active
    leaderboard,    \* leaderboard table: user_id -> [score, games_played]
    pgss,           \* TRUE iff pg_stat_statements is installed on the provider
    iterations,     \* args.iterations
    user_sample,    \* args.users_sample
    connection,     \* self.connection: "none" | "open" | "closed"
    txn,            \* transaction status of the connection: "idle" | "intrans" | "aborted"
    pc,             \* position of the program
    caller,         \* "suite" (run_complete_test_suite) or "direct" (a benchmark called on its own)
    op,             \* benchmark being run, "none" outside benchmarks
    i,              \* loop index of the running benchmark / warm-up round
    q,              \* index of the warm-up query inside a round
    min_user_id,    \* local of the running benchmark
    max_test_user,  \* local of the running benchmark
    user_id,        \* id drawn by the last trial
    times,          \* the `times` list of each benchmark's latest call
    issued,         \* trials issued by each benchmark's latest call
    failed,         \* except-branches taken by each benchmark's latest call
    outcome,        \* how the last trial / warm-up query ended: "ok" | "failed" | "none"
    rankResult,     \* row fetched by the last rank query
    results,        \* self.results['tests']
    raised,         \* exception that left the benchmark: "none" | "ValueError" | "DatabaseError"
    warmAttempts,   \* warm-up queries executed
    calls,          \* benchmarks called directly
    exit_code,      \* process exit status, -1 while running
    database_stats, \* self.results['database_stats']: "none" | "counts" | "empty"
    steps,          \* steps run_complete_test_suite has finished, in order
    reported,       \* TRUE once print_results_summary has printed the results
    pending,        \* rows written by a statement that is not committed yet
    count,          \* populate_data.py: args.users, the count of both generators
    distribution,   \* args.distribution
    batch_size,     \* args.batch_size
    usernames,      \* generate_usernames: the set of admitted names
    attempts,       \* generate_usernames: candidates tried
    username_list,  \* the list generate_usernames returned
    scores,         \* the list generate_scores returned
    pro_indices,    \* generate_scores: random.sample(range(count), num_pros)
    next_user_id,   \* next value of the SERIAL sequence of users.user_id
    clear,          \* args.clear of populate_data.py
    user_ids,       \* ids the provider gave to the users this run has stored, in list order
    score_ids       \* user_id of the leaderboard rows this run has stored, in list order

vars == <<users, leaderboard, pgss, iterations, user_sample, connection, txn, pc,
          caller, op, i, q, min_user_id, max_test_user, user_id, times, issued,
          failed, outcome, rankResult, results, raised, warmAttempts, calls,
          exit_code, database_stats, steps, reported, pending,
          count, distribution, batch_size, usernames, attempts, username_list,
          scores, pro_indices, next_user_id, clear, user_ids, score_ids>>

\* the variables of populate_data.py's generators
genVars == <<count, distribution, batch_size, usernames, attempts, username_list,
             scores, pro_indices, next_user_id, clear, user_ids, score_ids>>

\* the variables of a PerformanceTester that populate_data.py never touches
benchVars == <<pgss, iterations, user_sample, op, q, min_user_id, max_test_user,
               user_id, times, issued, failed, outcome, rankResult, results,
               warmAttempts, calls, database_stats, reported, pending>>

(* ------------------------------ helpers -------------------------------- *)
Min2(a, b) == IF a < b THEN a ELSE b
Max2(a, b) == IF a > b THEN a ELSE b

SetMin(S) == CHOOSE x \in S : \A y \in S : x <= y
SetMax(S) == CHOOSE x \in S : \A y \in S : x >= y

OpNames == {"score_update", "top_leaderboard", "user_ranking", "user_ranking_window"}

\* an orchestrator that measures the rank queries before the update
OpOrderRanksFirst == <<"user_ranking", "user_ranking_window", "score_update", "top_leaderboard">>
\* run_complete_test_suite calls the benchmarks in this order
OpOrder == <<"score_update", "top_leaderboard", "user_ranking", "user_ranking_window">>

\* the benchmarks that read the id bounds before their loop
NeedsBounds(o) == o \in {"score_update", "user_ranking", "user_ranking_window"}

OperationName(o) ==
    CASE o = "score_update"        -> "UPDATE Score"
      [] o = "top_leaderboard"     -> "SELECT TOP 10"
      [] o = "user_ranking"        -> "Calcolo Posizione Utente"
      [] o = "user_ranking_window" -> "Posizione con WINDOW Function"

(* ------------------- provider: the two rank queries -------------------- *)
\* FROM leaderboard l JOIN users u ON l.user_id = u.user_id WHERE u.is_active = TRUE
ActiveRows(us, lb) == {u \in DOMAIN lb : u \in DOMAIN us /\ us[u]}

NoRow == [found |-> FALSE, score |-> 0, position |-> 0]

\* (SELECT COUNT(*) + 1 FROM leaderboard l2 JOIN users u2 ... WHERE u2.is_active AND l2.score > l.score)
CountPositionGE(us, lb, s) ==
    Cardinality({u \in ActiveRows(us, lb) : lb[u].score >= s}) + 1
CountPosition(us, lb, s) ==
    Cardinality({u \in ActiveRows(us, lb) : lb[u].score > s}) + 1

\* counting strategy: the row fetched by fetchone(), NoRow when the query yields none
RankByCount(us, lb, id) ==
    IF id \in ActiveRows(us, lb)
    THEN [found |-> TRUE, score |-> lb[id].score,
          position |-> CountPosition(us, lb, lb[id].score)]
    ELSE NoRow

\* ORDER BY l.score DESC: the rows of S as a sequence of descending score
RECURSIVE OrderByScoreDesc(_, _)
OrderByScoreDesc(lb, S) ==
    IF S = {} THEN <<>>
    ELSE LET top == CHOOSE u \in S : \A v \in S : lb[u].score >= lb[v].score
         IN  <<top>> \o OrderByScoreDesc(lb, S \ {top})

\* RANK() OVER (ORDER BY score DESC) of the k-th row of the ordered partition:
\* the row number of the first row of its peer group
RECURSIVE DenseRankOver(_, _, _)
DenseRankOver(lb, rows, k) ==
    IF k = 1 THEN 1
    ELSE IF lb[rows[k]].score = lb[rows[k - 1]].score
         THEN DenseRankOver(lb, rows, k - 1)
         ELSE DenseRankOver(lb, rows, k - 1) + 1
RECURSIVE RankOver(_, _, _)
RankOver(lb, rows, k) ==
    IF k = 1 THEN 1
    ELSE IF lb[rows[k]].score = lb[rows[k - 1]].score
         THEN RankOver(lb, rows, k - 1)
         ELSE k

\* window strategy: WITH ranked_users AS (...) SELECT ... WHERE user_id = id
RankByWindow(us, lb, id) ==
    LET rows == OrderByScoreDesc(lb, ActiveRows(us, lb))
        hit  == {k \in 1..Len(rows) : rows[k] = id}
    IN  IF hit = {} THEN NoRow
        ELSE LET k == CHOOSE k \in hit : TRUE
             IN  [found |-> TRUE, score |-> lb[id].score,
                  position |-> RankOver(lb, rows, k)]

\* the same UPDATE without its WHERE clause
ApplyScoreDeltaAll(lb, id, d) ==
    [u \in DOMAIN lb |->
        [score |-> lb[u].score + d, games_played |-> lb[u].games_played + 1]]

\* UPDATE leaderboard SET score = score + d, games_played = games_played + 1 WHERE user_id = id
ApplyScoreDelta(lb, id, d) ==
    [u \in DOMAIN lb |->
        IF u = id THEN [score |-> lb[u].score + d, games_played |-> lb[u].games_played + 1]
        ELSE lb[u]]

(* ------------------------- statistics engine --------------------------- *)
RECURSIVE SeqSum(_)
SeqSum(s) == IF s = <<>> THEN 0 ELSE Head(s) + SeqSum(Tail(s))

RECURSIVE SeqSumSq(_)
SeqSumSq(s) == IF s = <<>> THEN 0 ELSE Head(s) * Head(s) + SeqSumSq(Tail(s))

RECURSIVE Insert(_, _)
Insert(x, s) ==
    IF s = <<>> THEN <<x>>
    ELSE IF x <= Head(s) THEN <<x>> \o s
    ELSE <<Head(s)>> \o Insert(x, Tail(s))

RECURSIVE Sorted(_)
Sorted(s) == IF s = <<>> THEN <<>> ELSE Insert(Head(s), Sorted(Tail(s)))

\* statistics.median, as a fraction <<numerator, 2>>
Median(s) ==
    LET x == Sorted(s)
        n == Len(s)
    IN  IF n % 2 = 1 THEN <<2 * x[(n + 1) \div 2], 2>>
        ELSE <<x[n \div 2] + x[n \div 2 + 1], 2>>

\* a percentile that interpolates between neighbours of the list as measured
PercentileUnsorted(s, p) ==
    LET n  == Len(s)
        h  == (n - 1) * p
        lo == h \div 100
        hi == Min2(lo + 1, n - 1)
    IN  <<100 * s[lo + 1] + (h - 100 * lo) * (s[hi + 1] - s[lo + 1]), 100>>
\* np.percentile(times, p), linear interpolation, as a fraction <<numerator, 100>>
Percentile(s, p) ==
    LET x  == Sorted(s)
        n  == Len(s)
        h  == (n - 1) * p                 \* virtual index * 100, 0-based
        lo == h \div 100
        hi == Min2(lo + 1, n - 1)
    IN  <<100 * x[lo + 1] + (h - 100 * lo) * (x[hi + 1] - x[lo + 1]), 100>>

\* the n-1 divisor applied to every sample, a single duration included
VarianceNoGuard(s) ==
    LET n == Len(s)
    IN  <<n * SeqSumSq(s) - SeqSum(s) * SeqSum(s), n * (n - 1)>>
\* statistics.stdev squared (n-1 divisor), as a fraction; 0 for a single sample
Variance(s) ==
    LET n == Len(s)
    IN  IF n > 1 THEN <<n * SeqSumSq(s) - SeqSum(s) * SeqSum(s), n * (n - 1)>>
        ELSE <<0, 1>>

ErrorResult == [error |-> "Nessun dato disponibile"]

\* the stats dictionary built from a non-empty list of durations
ComputeStats(ts, operation_name) ==
    [operation   |-> operation_name,
     sample_size |-> Len(ts),
     min_ms      |-> Sorted(ts)[1],
     max_ms      |-> Sorted(ts)[Len(ts)],
     mean_ms     |-> <<SeqSum(ts), Len(ts)>>,
     median_ms   |-> Median(ts),
     stdev_ms    |-> Variance(ts),
     p95_ms      |-> Percentile(ts, 95),
     p99_ms      |-> Percentile(ts, 99),
     ops_per_second |-> IF SeqSum(ts) > 0 THEN <<1000 * Len(ts), SeqSum(ts)>>
                        ELSE <<1, 0>>]

\* a statistics routine that treats the empty sample as a sample of size 0
CalculateStatisticsNoGuard(ts, operation_name) ==
    IF ts = <<>>
    THEN [operation |-> operation_name, sample_size |-> 0, min_ms |-> 0, max_ms |-> 0,
          mean_ms |-> <<0, 1>>, median_ms |-> <<0, 2>>, stdev_ms |-> <<0, 1>>,
          p95_ms |-> <<0, 100>>, p99_ms |-> <<0, 100>>, ops_per_second |-> <<1, 0>>]
    ELSE ComputeStats(ts, operation_name)
\* _calculate_statistics(times, operation_name)
CalculateStatistics(ts, operation_name) ==
    IF ts = <<>> THEN ErrorResult ELSE ComputeStats(ts, operation_name)

(* --------------------------- the connection ---------------------------- *)
\* cursor.execute on a connection with autocommit off: a statement can only
\* succeed outside an aborted transaction, and then a transaction is open
CanExecute(t) == t # "aborted"

\* an except branch that forgets connection.rollback()
RollbackMissing(t) == t
\* connection.rollback()
Rollback(t) == "idle"

\* connection.commit()
Commit(t) == "idle"

(* ------------------------ benchmark building blocks -------------------- *)
\* row of SELECT MIN(user_id), MAX(user_id) FROM leaderboard; 0 stands for NULL
BoundsRow(lb) ==
    IF DOMAIN lb = {} THEN [min |-> 0, max |-> 0]
    ELSE [min |-> SetMin(DOMAIN lb), max |-> SetMax(DOMAIN lb)]

\* a bounds check that never fires
BoundsMissingNever(row) == FALSE
\* result is None or result['min'] is None
BoundsMissing(row) == row.min = 0

\* an upper bound that ignores user_sample
MaxTestUserFullRange(min_id, max_id, sample) == max_id
\* max_test_user = min(max_user_id, user_sample); if below min_user_id: max_user_id
MaxTestUser(min_id, max_id, sample) ==
    LET m == Min2(max_id, sample)
    IN  IF m < min_id THEN max_id ELSE m

\* an except branch that gives the batch up
NextTrialAbort(k, n) == n
\* the except branch falls through to the next iteration of range(iterations)
NextTrialAfterFailure(k, n) == k + 1

\* an except branch that records the failed trial as a sample
OnTrialFailureRecord(ts, o) == [ts EXCEPT ![o] = Append(@, 0)]
\* an except branch that throws away every list of samples
OnTrialFailureClearAll(ts, o) == [p \in DOMAIN ts |-> <<>>]
\* the except branch leaves `times` alone
OnTrialFailure(ts, o) == ts

\* times.append(execution_time)
AppendTime(ts, o, d) == [ts EXCEPT ![o] = Append(@, d)]

NoRank == [strategy |-> "none", user_id |-> 0, row |-> NoRow]

Populations(maxId, scoreSet) ==
    UNION {[ (lo..hi) -> [score : scoreSet, games_played : {1}] ] :
              lo \in 1..maxId, hi \in 0..maxId}

\* is_active flags of the harness populations: only the newest user may be inactive
ActiveFlags(ids) ==
    {f \in [ids -> BOOLEAN] : \A u \in ids : ~f[u] => u = SetMax(ids)}

(* ------------------------------- Init ---------------------------------- *)
\* locals of a benchmark call that is not running
NoLocals ==
    /\ op = "none" /\ i = 0 /\ q = 0
    /\ min_user_id = 0 /\ max_test_user = 0 /\ user_id = 0
    /\ outcome = "none"

\* no populate_data.py run is in progress: the population is what it has loaded
NoGenerator ==
    /\ count = 0
    /\ distribution = "normal"
    /\ batch_size = 1000
    /\ usernames = {}
    /\ attempts = 0
    /\ username_list = <<>>
    /\ scores = <<>>
    /\ pro_indices = <<>>
    /\ next_user_id = 1
    /\ clear = FALSE
    /\ user_ids = <<>>
    /\ score_ids = <<>>

FreshTester ==
    /\ times = [o \in OpNames |-> <<>>]
    /\ issued = [o \in OpNames |-> 0]
    /\ failed = [o \in OpNames |-> 0]
    /\ rankResult = NoRank
    /\ results = << >>
    /\ raised = "none"
    /\ warmAttempts = 0
    /\ calls = 0
    /\ exit_code = -1
    /\ database_stats = "none"
    /\ steps = <<>>
    /\ reported = FALSE
    /\ pending = << >>

\* main() of performance_test.py right after PerformanceTester(db_config), on a
\* population loaded by populate_data.py --clear (ids 1..n, here all active) and
\* with a --users-sample that covers it
Init ==
    /\ \E n \in 0..MaxUserId :
          /\ leaderboard \in [1..n -> [score : InitScores, games_played : {1}]]
          /\ users = [u \in 1..n |-> TRUE]
    /\ pgss \in BOOLEAN
    /\ iterations \in 0..MaxIterations
    /\ user_sample = MaxUserSample
    /\ connection = "none"
    /\ txn = "idle"
    /\ pc = "connect"
    /\ caller = "suite"
    /\ NoLocals
    /\ FreshTester
    /\ NoGenerator

(* ------------------------------ main() --------------------------------- *)
\* tester.connect(): psycopg2.connect, autocommit off, _verify_pg_stat_statements
\* (its failed SELECT is swallowed without a rollback)
ConnectOk ==
    /\ pc = "connect"
    /\ connection' = "open"
    /\ txn' = IF pgss THEN "intrans" ELSE "aborted"
    /\ pc' = "db_stats"
    /\ UNCHANGED <<users, leaderboard, pgss, iterations, user_sample, caller, op, i, q,
                   min_user_id, max_test_user, user_id, times, issued, failed, outcome,
                   rankResult, results, raised, warmAttempts, calls, exit_code,
                   database_stats, steps, reported, pending, genVars>>

\* psycopg2.connect raises: connect() prints and calls sys.exit(1)
ConnectFails ==
    /\ pc = "connect"
    /\ raised' = "SystemExit"
    /\ pc' = "disconnect"
    /\ UNCHANGED <<users, leaderboard, pgss, iterations, user_sample, connection, txn,
                   caller, op, i, q, min_user_id, max_test_user, user_id, times, issued,
                   failed, outcome, rankResult, results, warmAttempts, calls, exit_code,
                   database_stats, steps, reported, pending, genVars>>

\* get_database_stats(): SELECTs without commit; an error is printed and swallowed,
\* and the stats gathered before it (the two COUNT(*) come first) are returned
GetDatabaseStats ==
    /\ pc = "db_stats"
    /\ \E ok \in BOOLEAN, counted \in BOOLEAN :
          /\ counted => CanExecute(txn)
          /\ ok => counted
          /\ txn' = IF ok THEN "intrans" ELSE "aborted"
          /\ database_stats' = IF counted THEN "counts" ELSE "empty"
    /\ steps' = Append(steps, "database_stats")
    /\ pc' = "warm_up"
    /\ i' = 0
    /\ q' = 1
    /\ UNCHANGED <<users, leaderboard, pgss, iterations, user_sample, connection, caller,
                   op, min_user_id, max_test_user, user_id, times, issued, failed,
                   outcome, rankResult, results, raised, warmAttempts, calls, exit_code,
                   reported, pending, genVars>>

\* one query of warm_up_queries: execute, fetchall, commit; rollback on any error
WarmUpQuery ==
    /\ pc = "warm_up"
    /\ i < WarmUpIterations
    /\ \E ok \in BOOLEAN :
          /\ ok => CanExecute(txn)
          /\ txn' = IF ok THEN Commit("intrans") ELSE Rollback("aborted")
          /\ outcome' = IF ok THEN "ok" ELSE "failed"
    /\ warmAttempts' = warmAttempts + 1
    /\ IF q < 3 THEN q' = q + 1 /\ i' = i
                ELSE q' = 1 /\ i' = i + 1
    /\ UNCHANGED <<users, leaderboard, pgss, iterations, user_sample, connection, pc,
                   caller, op, min_user_id, max_test_user, user_id, times, issued,
                   failed, rankResult, results, raised, calls, exit_code,
                   database_stats, steps, reported, pending, genVars>>

\* the warm-up loop is over: cursor.close()
WarmUpDone ==
    /\ pc = "warm_up"
    /\ i >= WarmUpIterations
    /\ pc' = "reset"
    /\ steps' = Append(steps, "warm_up")
    /\ i' = 0
    /\ q' = 0
    /\ outcome' = "none"
    /\ UNCHANGED <<users, leaderboard, pgss, iterations, user_sample, connection, txn,
                   caller, op, min_user_id, max_test_user, user_id, times, issued,
                   failed, rankResult, results, raised, warmAttempts, calls, exit_code,
                   database_stats, reported, pending, genVars>>

\* SELECT pg_stat_statements_reset() and commit; except Exception: only a warning
ResetCounters ==
    /\ pc = "reset"
    /\ txn' = IF pgss /\ CanExecute(txn) THEN Commit("intrans") ELSE "aborted"
    /\ pc' = "bench_start"
    /\ steps' = Append(steps, "reset")
    /\ op' = OpOrder[1]
    /\ UNCHANGED <<users, leaderboard, pgss, iterations, user_sample, connection, caller,
                   i, q, min_user_id, max_test_user, user_id, times, issued, failed,
                   outcome, rankResult, results, raised, warmAttempts, calls, exit_code,
                   database_stats, reported, pending, genVars>>

(* ---------------------------- a benchmark ------------------------------ *)
\* cursor = self.connection.cursor(); times = []
EnterBenchmark ==
    /\ times' = [times EXCEPT ![op] = <<>>]
    /\ issued' = [issued EXCEPT ![op] = 0]
    /\ failed' = [failed EXCEPT ![op] = 0]

\* test_top_leaderboard_performance goes straight to its loop
StartTopLeaderboard ==
    /\ pc = "bench_start"
    /\ ~NeedsBounds(op)
    /\ EnterBenchmark
    /\ pc' = "trial"
    /\ i' = 0
    /\ UNCHANGED <<users, leaderboard, pgss, iterations, user_sample, connection, txn,
                   caller, op, q, min_user_id, max_test_user, user_id, outcome,
                   rankResult, results, raised, warmAttempts, calls, exit_code,
                   database_stats, steps, reported, pending, genVars>>

\* SELECT MIN(user_id), MAX(user_id) FROM leaderboard, outside any try
ReadBounds ==
    /\ pc = "bench_start"
    /\ NeedsBounds(op)
    /\ CanExecute(txn)
    /\ EnterBenchmark
    /\ txn' = "intrans"
    /\ pc' = "bounds"
    /\ UNCHANGED <<users, leaderboard, pgss, iterations, user_sample, connection, caller,
                   op, i, q, min_user_id, max_test_user, user_id, outcome, rankResult,
                   results, raised, warmAttempts, calls, exit_code,
                   database_stats, steps, reported, pending, genVars>>

\* the bounds query is refused inside an aborted transaction and its error propagates
ReadBoundsFails ==
    /\ pc = "bench_start"
    /\ NeedsBounds(op)
    /\ ~CanExecute(txn)
    /\ EnterBenchmark
    /\ raised' = "DatabaseError"
    /\ pc' = "raise"
    /\ UNCHANGED <<users, leaderboard, pgss, iterations, user_sample, connection, txn,
                   caller, op, i, q, min_user_id, max_test_user, user_id, outcome,
                   rankResult, results, warmAttempts, calls, exit_code,
                   database_stats, steps, reported, pending, genVars>>

\* result = cursor.fetchone(); empty check; min_user_id, max_test_user; range check
CheckBounds ==
    /\ pc = "bounds"
    /\ LET row == BoundsRow(leaderboard)
           mtu == MaxTestUser(row.min, row.max, user_sample)
       IN  IF BoundsMissing(row) \/ row.min > mtu
           THEN /\ raised' = "ValueError"
                /\ pc' = "raise"
                /\ UNCHANGED <<min_user_id, max_test_user, i>>
           ELSE /\ min_user_id' = row.min
                /\ max_test_user' = mtu
                /\ pc' = "trial"
                /\ i' = 0
                /\ UNCHANGED raised
    /\ UNCHANGED <<users, leaderboard, pgss, iterations, user_sample, connection, txn,
                   caller, op, q, user_id, times, issued, failed, outcome, rankResult,
                   results, warmAttempts, calls, exit_code,
                   database_stats, steps, reported, pending, genVars>>

\* random.randint(min_user_id, max_test_user); the top-N trial draws no id
TrialIds == IF NeedsBounds(op) THEN min_user_id..max_test_user ELSE {0}

\* status of the transaction when the try block is left by an exception
FailedStatus(kind) == IF kind = "execute_failed" THEN "aborted" ELSE "idle"

\* a trial whose execute or commit raises: except Exception: rollback, print
TrialFails ==
    /\ pc = "trial"
    /\ i < iterations
    /\ \E id \in TrialIds, kind \in {"execute_failed", "commit_failed"} :
          /\ kind = "commit_failed" => CanExecute(txn)
          /\ user_id' = id
          /\ outcome' = "failed"
          /\ txn' = Rollback(FailedStatus(kind))
    /\ issued' = [issued EXCEPT ![op] = @ + 1]
    /\ failed' = [failed EXCEPT ![op] = @ + 1]
    /\ times' = OnTrialFailure(times, op)
    /\ i' = NextTrialAfterFailure(i, iterations)
    /\ UNCHANGED <<users, leaderboard, pgss, iterations, user_sample, connection, pc,
                   caller, op, q, min_user_id, max_test_user, rankResult, results,
                   raised, warmAttempts, calls, exit_code,
                   database_stats, steps, reported, pending, genVars>>

\* what a successful trial of any benchmark does besides its statement
TrialSucceeds(id) ==
    /\ pc = "trial"
    /\ i < iterations
    /\ CanExecute(txn)
    /\ user_id' = id
    /\ outcome' = "ok"
    /\ txn' = Commit("intrans")
    /\ issued' = [issued EXCEPT ![op] = @ + 1]
    /\ \E d \in TrialDurations : times' = AppendTime(times, op, d)
    /\ i' = i + 1
    /\ UNCHANGED <<users, pgss, iterations, user_sample, connection, pc, caller, op, q,
                   min_user_id, max_test_user, failed, results, raised, warmAttempts,
                   calls, exit_code,
                   database_stats, steps, reported, pending, genVars>>

\* UPDATE leaderboard SET score = score + %s, games_played = games_played + 1; commit
TrialUpdate ==
    /\ op = "score_update"
    /\ \E id \in TrialIds, score_increment \in Deltas :
          /\ TrialSucceeds(id)
          /\ leaderboard' = ApplyScoreDelta(leaderboard, id, score_increment)
    /\ UNCHANGED rankResult

\* SELECT ... ORDER BY l.score DESC LIMIT 10; fetchall; commit
TrialTop ==
    /\ op = "top_leaderboard"
    /\ TrialSucceeds(0)
    /\ UNCHANGED <<leaderboard, rankResult>>

\* the COUNT(*) + 1 query; fetchone; commit
TrialRankCount ==
    /\ op = "user_ranking"
    /\ \E id \in TrialIds :
          /\ TrialSucceeds(id)
          /\ rankResult' = [strategy |-> "count", user_id |-> id,
                            row |-> RankByCount(users, leaderboard, id)]
    /\ UNCHANGED leaderboard

\* the RANK() OVER query; fetchone; commit
TrialRankWindow ==
    /\ op = "user_ranking_window"
    /\ \E id \in TrialIds :
          /\ TrialSucceeds(id)
          /\ rankResult' = [strategy |-> "window", user_id |-> id,
                            row |-> RankByWindow(users, leaderboard, id)]
    /\ UNCHANGED leaderboard

\* an orchestrator that gives up after its first benchmark
NextOpGivesUp(o) == "none"
\* the benchmark after op in run_complete_test_suite, "none" after the last
NextOp(o) ==
    LET k == CHOOSE n \in 1..Len(OpOrder) : OpOrder[n] = o
    IN  IF k < Len(OpOrder) THEN OpOrder[k + 1] ELSE "none"

\* cursor.close(); stats = self._calculate_statistics(times, name); return stats
\* and the caller's self.results['tests'][op] = stats
BenchmarkReturns ==
    /\ pc = "trial"
    /\ i >= iterations
    /\ results' = (op :> CalculateStatistics(times[op], OperationName(op))) @@ results
    /\ steps' = IF caller = "suite" THEN Append(steps, op) ELSE steps
    /\ i' = 0
    /\ min_user_id' = 0
    /\ max_test_user' = 0
    /\ user_id' = 0
    /\ outcome' = "none"
    /\ rankResult' = NoRank
    /\ IF caller = "suite"
       THEN /\ op' = NextOp(op)
            /\ pc' = IF NextOp(op) = "none" THEN "pg_stats" ELSE "bench_start"
       ELSE /\ op' = "none"
            /\ pc' = "idle"
    /\ UNCHANGED <<users, leaderboard, pgss, iterations, user_sample, connection, txn,
                   caller, q, times, issued, failed, raised, warmAttempts, calls,
                   exit_code,
                   database_stats, reported, pending, genVars>>

\* an exception leaves the benchmark: main() prints it and calls sys.exit(1)
BenchmarkRaises ==
    /\ pc = "raise"
    /\ pc' = IF caller = "suite" THEN "disconnect" ELSE "stopped"
    /\ UNCHANGED <<users, leaderboard, pgss, iterations, user_sample, connection, txn,
                   caller, op, i, q, min_user_id, max_test_user, user_id, times, issued,
                   failed, outcome, rankResult, results, raised, warmAttempts, calls,
                   exit_code,
                   database_stats, steps, reported, pending, genVars>>

\* get_pg_stat_statements_info(): an error is stored in the result and swallowed
GetPgStatStatementsInfo ==
    /\ pc = "pg_stats"
    /\ txn' = IF pgss /\ CanExecute(txn) THEN "intrans" ELSE "aborted"
    /\ steps' = Append(steps, "pg_stat_statements")
    /\ pc' = "report"
    /\ UNCHANGED <<users, leaderboard, pgss, iterations, user_sample, connection, caller,
                   op, i, q, min_user_id, max_test_user, user_id, times, issued, failed,
                   outcome, rankResult, results, raised, warmAttempts, calls, exit_code,
                   database_stats, reported, pending, genVars>>

\* print_results_summary formats db_stats.get('total_users', 'N/A') with ',':
\* a ValueError when the counts are missing
CanFormatSummary(stats) == stats = "counts"

\* return self.results; main() calls print_results_summary; an exception of it
\* is caught by main's except Exception (sys.exit(1))
Report ==
    /\ pc = "report"
    /\ steps' = Append(steps, "report")
    /\ IF CanFormatSummary(database_stats)
       THEN reported' = TRUE /\ raised' = raised
       ELSE reported' = FALSE /\ raised' = "ValueError"
    /\ pc' = "disconnect"
    /\ UNCHANGED <<users, leaderboard, pgss, iterations, user_sample, connection, txn,
                   caller, op, i, q, min_user_id, max_test_user, user_id, times, issued,
                   failed, outcome, rankResult, results, warmAttempts, calls,
                   exit_code,
                   database_stats, pending, genVars>>

\* a main() that ends with status 0 whatever happened
ExitStatusAlwaysZero(exc) == 0
\* main(): except KeyboardInterrupt only prints and main returns normally;
\* except Exception calls sys.exit(1), like connect() does on its own
ExitStatus(exc) == IF exc \in {"none", "KeyboardInterrupt"} THEN 0 ELSE 1

\* a close() that lets the uncommitted rows stand
CloseKeepsWritten(written) == written
\* connection.close(): the provider discards what the open transaction has written
Close(written) == << >>

\* finally: tester.disconnect(); the process ends
Disconnect ==
    /\ pc = "disconnect"
    /\ connection' = IF connection = "open" THEN "closed" ELSE connection
    /\ pending' = IF connection = "open" THEN Close(pending) ELSE pending
    /\ exit_code' = ExitStatus(raised)
    /\ pc' = "done"
    /\ UNCHANGED <<users, leaderboard, pgss, iterations, user_sample, txn, caller, op, i,
                   q, min_user_id, max_test_user, user_id, times, issued, failed,
                   outcome, rankResult, results, raised, warmAttempts, calls,
                   database_stats, steps, reported, genVars>>

Next ==
    \/ ConnectOk
    \/ ConnectFails
    \/ GetDatabaseStats
    \/ WarmUpQuery
    \/ WarmUpDone
    \/ ResetCounters
    \/ StartTopLeaderboard
    \/ ReadBounds
    \/ ReadBoundsFails
    \/ CheckBounds
    \/ TrialFails
    \/ TrialUpdate
    \/ TrialTop
    \/ TrialRankCount
    \/ TrialRankWindow
    \/ BenchmarkReturns
    \/ BenchmarkRaises
    \/ GetPgStatStatementsInfo
    \/ Report
    \/ Disconnect

Spec == Init /\ [][Next]_vars

(* -------- a client that calls the benchmark methods on their own -------- *)
\* a connected PerformanceTester: connect() has returned
InitOps ==
    /\ leaderboard \in Populations(MaxUserId, InitScores)
    /\ users \in ActiveFlags(DOMAIN leaderboard)
    /\ pgss \in BOOLEAN
    /\ iterations \in 0..MaxIterations
    /\ user_sample \in 0..MaxUserSample
    /\ connection = "open"
    /\ txn = IF pgss THEN "intrans" ELSE "aborted"
    /\ pc = "idle"
    /\ caller = "direct"
    /\ NoLocals
    /\ FreshTester
    /\ NoGenerator

\* results['tests'][o] = tester.test_..._performance(iterations, user_sample)
CallBenchmark ==
    /\ pc = "idle"
    /\ calls < MaxCalls
    /\ \E o \in OpNames : op' = o
    /\ calls' = calls + 1
    /\ pc' = "bench_start"
    /\ UNCHANGED <<users, leaderboard, pgss, iterations, user_sample, connection, txn,
                   caller, i, q, min_user_id, max_test_user, user_id, times, issued,
                   failed, outcome, rankResult, results, raised, warmAttempts, exit_code,
                   database_stats, steps, reported, pending, genVars>>

NextOps ==
    \/ CallBenchmark
    \/ StartTopLeaderboard
    \/ ReadBounds
    \/ ReadBoundsFails
    \/ CheckBounds
    \/ TrialFails
    \/ TrialUpdate
    \/ TrialTop
    \/ TrialRankCount
    \/ TrialRankWindow
    \/ BenchmarkReturns
    \/ BenchmarkRaises

SpecOps == InitOps /\ [][NextOps]_vars

(* ------------- a session that an external interrupt may stop ----------- *)
\* the rows an UPDATE of the running trial has written so far
WrittenRows(o, lb, id, delta) ==
    IF o = "score_update" THEN (id :> ApplyScoreDelta(lb, id, delta)[id]) ELSE << >>

\* KeyboardInterrupt inside the try block of a trial: before cursor.execute, between
\* execute and commit, or after commit and before times.append.  except Exception
\* does not catch it: it leaves the benchmark and run_complete_test_suite (their
\* locals are gone, `times` with them) and reaches main's except KeyboardInterrupt
TrialInterrupted ==
    /\ pc = "trial"
    /\ i < iterations
    /\ \E id \in TrialIds, delta \in Deltas,
          point \in {"before_execute", "before_commit", "after_commit"} :
          /\ point # "before_execute" => CanExecute(txn)
          /\ pending' = IF point = "before_commit"
                         THEN WrittenRows(op, leaderboard, id, delta) ELSE << >>
          /\ leaderboard' = IF point = "after_commit" /\ op = "score_update"
                             THEN ApplyScoreDelta(leaderboard, id, delta)
                             ELSE leaderboard
          /\ txn' = CASE point = "before_execute" -> txn
                       [] point = "before_commit"  -> "intrans"
                       [] point = "after_commit"   -> Commit("intrans")
    /\ issued' = [issued EXCEPT ![op] = @ + 1]
    /\ outcome' = "interrupted"
    /\ raised' = "KeyboardInterrupt"
    /\ pc' = "disconnect"
    /\ i' = 0
    /\ min_user_id' = 0
    /\ max_test_user' = 0
    /\ user_id' = 0
    /\ rankResult' = NoRank
    /\ UNCHANGED <<users, pgss, iterations, user_sample, connection, caller, op, q,
                   times, failed, results, warmAttempts, calls, exit_code,
                   database_stats, steps, reported, genVars>>

NextCancel ==
    \/ Next
    \/ TrialInterrupted

SpecCancel == Init /\ [][NextCancel]_vars

(* ------------- the two rank queries on a fixed snapshot ---------------- *)
\* any population of at most MaxRankUsers entities with ids 1..n
InitRank ==
    /\ \E n \in 0..MaxRankUsers :
          /\ leaderboard \in [1..n -> [score : RankScores, games_played : {1}]]
          /\ users \in [1..n -> BOOLEAN]
    /\ pgss = TRUE
    /\ iterations = 0
    /\ user_sample = 1
    /\ connection = "open"
    /\ txn = "idle"
    /\ pc = "query"
    /\ caller = "direct"
    /\ NoLocals
    /\ FreshTester
    /\ NoGenerator

\* the counting query of test_user_ranking_performance run for one id
QueryRankByCount ==
    /\ pc = "query"
    /\ \E id \in 1..MaxRankUsers :
          rankResult' = [strategy |-> "count", user_id |-> id,
                         row |-> RankByCount(users, leaderboard, id)]
    /\ UNCHANGED <<users, leaderboard, pgss, iterations, user_sample, connection, txn, pc,
                   caller, op, i, q, min_user_id, max_test_user, user_id, times, issued,
                   failed, outcome, results, raised, warmAttempts, calls, exit_code,
                   database_stats, steps, reported, pending, genVars>>

\* the window query of test_user_ranking_with_window_function run for one id
QueryRankByWindow ==
    /\ pc = "query"
    /\ \E id \in 1..MaxRankUsers :
          rankResult' = [strategy |-> "window", user_id |-> id,
                         row |-> RankByWindow(users, leaderboard, id)]
    /\ UNCHANGED <<users, leaderboard, pgss, iterations, user_sample, connection, txn, pc,
                   caller, op, i, q, min_user_id, max_test_user, user_id, times, issued,
                   failed, outcome, results, raised, warmAttempts, calls, exit_code,
                   database_stats, steps, reported, pending, genVars>>

NextRank == QueryRankByCount \/ QueryRankByWindow

SpecRank == InitRank /\ [][NextRank]_vars

(* ===================== populate_data.py: DataGenerator ================= *)
DigitChars == <<"0", "1", "2", "3", "4", "5", "6", "7", "8", "9">>

\* str(n) of a natural number, one character per element
RECURSIVE Digits(_)
Digits(n) ==
    IF n < 10 THEN <<DigitChars[n + 1]>>
    ELSE Digits(n \div 10) \o <<DigitChars[(n % 10) + 1]>>

\* f"{random.choice(prefixes)}{random.randint(1, 99999)}"
FormatPrefixNumber(prefix, n) == <<prefix>> \o Digits(n)

\* f"{random.choice(prefixes)}{random.choice(suffixes)}{random.randint(1, 999)}"
FormatPrefixSuffixNumber(prefix, suffix, n) == <<prefix>> \o suffix \o Digits(n)

\* a third template without the number of names admitted so far
FormatUserNoCounter(k, n) == <<"User", "_">> \o Digits(n)
\* f"User{len(usernames)+1}_{random.randint(100, 99999)}"
FormatUserNumber(k, n) == <<"User">> \o Digits(k) \o <<"_">> \o Digits(n)

\* the candidates of attempt number att (already incremented), by attempts % 3
Candidates(att, names) ==
    IF att % 3 = 0
    THEN {FormatPrefixNumber(p, n) : p \in Prefixes, n \in PrefixNumbers}
    ELSE IF att % 3 = 1
    THEN {FormatPrefixSuffixNumber(p, x, n) : p \in Prefixes, x \in Suffixes,
                                               n \in SuffixNumbers}
    ELSE {FormatUserNumber(Cardinality(names) + 1, n) : n \in UserNumbers}

\* max_attempts = count * 10
MaxAttempts(cnt) == cnt * 10

\* a loop that admits one name more than asked for
KeepGeneratingOneMore(n, cnt, att, max) == n <= cnt /\ att < max
\* a loop that goes on while either limit is not reached
KeepGeneratingEither(n, cnt, att, max) == n < cnt \/ att < max
\* while len(usernames) < count and attempts < max_attempts
KeepGenerating(n, cnt, att, max) == n < cnt /\ att < max

\* if username not in usernames: usernames.add(username)
Admit(names, username) == names \union {username}

\* list(usernames): the names of the set in some order
ListsOf(names) ==
    {l \in [1..Cardinality(names) -> names] :
        \A a, b \in 1..Cardinality(names) : l[a] = l[b] => a = b}

\* one iteration of the while loop of generate_usernames
GenerateUsernameAttempt ==
    /\ pc = "generate_usernames"
    /\ KeepGenerating(Cardinality(usernames), count, attempts, MaxAttempts(count))
    /\ attempts' = attempts + 1
    /\ \E username \in Candidates(attempts + 1, usernames) :
          usernames' = Admit(usernames, username)
    /\ UNCHANGED <<users, leaderboard, connection, txn, pc, caller, i, raised,
                   exit_code, steps, count, distribution, batch_size, username_list,
                   scores, pro_indices, next_user_id, clear, user_ids, score_ids,
                   benchVars>>

\* the loop is over: raise ValueError when short, else return list(usernames)
GenerateUsernamesEnd ==
    /\ pc = "generate_usernames"
    /\ ~KeepGenerating(Cardinality(usernames), count, attempts, MaxAttempts(count))
    /\ IF Cardinality(usernames) < count
       THEN /\ raised' = "ValueError"
            /\ pc' = "populate_exit"
            /\ UNCHANGED <<username_list, steps>>
       ELSE /\ \E l \in ListsOf(usernames) : username_list' = l
            /\ steps' = Append(steps, "generate_usernames")
            /\ pc' = "insert_users"
            /\ UNCHANGED raised
    /\ i' = 0
    /\ UNCHANGED <<users, leaderboard, connection, txn, caller, exit_code, count,
                   distribution, batch_size, usernames, attempts, scores, pro_indices,
                   next_user_id, clear, user_ids, score_ids, benchVars>>

\* a slice that takes all that is left of the list: user_data[i:]
BatchLenRest(n, k, size) == n - k
\* items i+1 .. i+batch_size of a list of n items: user_data[i:i + batch_size]
BatchLen(n, k, size) == Min2(size, n - k)

\* is_active = random.random() < 0.95 of the users of a batch: here only the
\* user with id 1 may be inactive
ActiveDraws(ids) == {f \in [ids -> BOOLEAN] : \A u \in ids : ~f[u] => u = 1}

\* the ids first, first + 1, ... of len consecutive rows
IdsFrom(first, len) == [k \in 1..len |-> first + k - 1]

\* one batch of insert_users_batch: executemany and commit; on an error rollback
\* and re-raise.  The ids come from the SERIAL sequence, whose values a rolled
\* back INSERT does not give back
InsertUsersBatch ==
    /\ pc = "insert_users"
    /\ i < Len(username_list)
    /\ LET len == BatchLen(Len(username_list), i, batch_size)
       IN  \E ok \in BOOLEAN :
              IF ok
              THEN /\ \E is_active \in ActiveDraws(next_user_id..(next_user_id + len - 1)) :
                         users' = is_active @@ users
                   /\ next_user_id' = next_user_id + len
                   /\ user_ids' = user_ids \o IdsFrom(next_user_id, len)
                   /\ txn' = Commit("intrans")
                   /\ i' = i + batch_size
                   /\ UNCHANGED <<pc, raised>>
              ELSE /\ \E drawn \in 0..len : next_user_id' = next_user_id + drawn
                   /\ txn' = Rollback("aborted")
                   /\ raised' = "DatabaseError"
                   /\ pc' = "populate_exit"
                   /\ UNCHANGED <<users, i, user_ids>>
    /\ UNCHANGED <<leaderboard, connection, caller, exit_code, steps, count,
                   distribution, batch_size, usernames, attempts, username_list, scores,
                   pro_indices, clear, score_ids, benchVars>>

\* the batch loop of insert_users_batch is over: cursor.close().  main() does
\* not read the names again
InsertUsersDone ==
    /\ pc = "insert_users"
    /\ i >= Len(username_list)
    /\ steps' = Append(steps, "insert_users")
    /\ pc' = "generate_scores"
    /\ i' = 0
    /\ usernames' = {}
    /\ attempts' = 0
    /\ username_list' = <<>>
    /\ UNCHANGED <<users, leaderboard, connection, txn, caller, raised, exit_code,
                   count, distribution, batch_size, scores, pro_indices, next_user_id,
                   clear, user_ids, score_ids, benchVars>>

\* the floats numpy draws for one kind
RawDrawsOf(kind) ==
    CASE kind = "normal"      -> NormalDraws
      [] kind = "skewed"      -> ExponentialDraws
      [] kind = "uniform"     -> UniformDraws
      [] kind = "exponential" -> ExponentialDraws

\* the arrays np.random.<kind>(..., count) may return; one value at every position
\* when the count is large
RawVectors(kind, cnt) ==
    IF cnt \in LargeCounts
    THEN {[k \in 1..cnt |-> r] : r \in RawDrawsOf(kind)}
    ELSE [1..cnt -> RawDrawsOf(kind)]

\* a pro-player count without the floor of one
NumProsNoFloor(cnt) == cnt \div 100
\* num_pros = max(1, count // 100)
NumPros(cnt) == Max2(1, cnt \div 100)

\* the positions of range(count) the sample is drawn from: the two first and the
\* last when the count is large
SamplePositions(cnt) == IF cnt \in LargeCounts THEN {0, 1, cnt - 1} ELSE 0..(cnt - 1)

\* random.sample(population, k): k positions without replacement, in any order
Sample(population, k) ==
    {l \in [1..k -> population] : \A a, b \in 1..k : l[a] = l[b] => a = b}

\* ndarray.astype(int) of a float given in tenths: truncation towards zero
Truncate(x) == IF x >= 0 THEN x \div 10 ELSE -((-x) \div 10)

\* a conversion that keeps negative scores
ClampMissing(v) == v
\* np.maximum(0, v)
Clamp(v) == Max2(0, v)

\* base_scores[idx] += random.randint(5000, 15000) for idx in pro_indices
AddBonuses(raw, pros, bonus) ==
    [k \in DOMAIN raw |->
        IF \E n \in DOMAIN pros : pros[n] = k - 1
        THEN raw[k] + 10 * bonus[CHOOSE n \in DOMAIN pros : pros[n] = k - 1]
        ELSE raw[k]]

\* scores = np.maximum(0, scores.astype(int)); scores.tolist()
ToScores(arr) == [k \in DOMAIN arr |-> Clamp(Truncate(arr[k]))]

\* generate_scores(count, distribution).  ValueError is raised for an unknown
\* kind, by random.sample when num_pros exceeds count, and by np.min(scores)
\* in the statistics printout when the array is empty
GenerateScores ==
    /\ pc = "generate_scores"
    /\ IF \/ distribution \notin Distributions
          \/ distribution = "skewed" /\ NumPros(count) > count
          \/ count = 0
       THEN /\ raised' = "ValueError"
            /\ pc' = IF caller = "populate" THEN "populate_exit" ELSE "returned"
            /\ UNCHANGED <<scores, pro_indices, steps>>
       ELSE /\ \E raw \in RawVectors(distribution, count) :
                  IF distribution = "skewed"
                  THEN \E pros \in Sample(SamplePositions(count), NumPros(count)) :
                       \E bonus \in [DOMAIN pros -> Bonuses] :
                           /\ pro_indices' = pros
                           /\ scores' = ToScores(AddBonuses(raw, pros, bonus))
                  ELSE /\ pro_indices' = <<>>
                       /\ scores' = ToScores(raw)
            /\ steps' = Append(steps, "generate_scores")
            /\ pc' = IF caller = "populate" THEN "insert_leaderboard" ELSE "returned"
            /\ UNCHANGED raised
    /\ i' = 0
    /\ UNCHANGED <<users, leaderboard, connection, txn, caller, exit_code, count,
                   distribution, batch_size, usernames, attempts, username_list,
                   next_user_id, clear, user_ids, score_ids, benchVars>>

\* the rows of one batch: user_id = i + 1, the score, games_played
LeaderboardRows(k, len, games) ==
    [id \in (k + 1)..(k + len) |-> [score |-> scores[id], games_played |-> games[id]]]

\* one batch of insert_leaderboard_batch: executemany and commit; on an error
\* rollback and re-raise.  A user_id that is already stored is refused
InsertLeaderboardBatch ==
    /\ pc = "insert_leaderboard"
    /\ i < Len(scores)
    /\ LET len == BatchLen(Len(scores), i, batch_size)
       IN  \E ok \in BOOLEAN :
              IF ok
              THEN /\ (i + 1)..(i + len) \cap DOMAIN leaderboard = {}
                   /\ \E games \in [(i + 1)..(i + len) -> GamesPlayed] :
                         leaderboard' = LeaderboardRows(i, len, games) @@ leaderboard
                   /\ score_ids' = score_ids \o IdsFrom(i + 1, len)
                   /\ txn' = Commit("intrans")
                   /\ i' = i + batch_size
                   /\ UNCHANGED <<pc, raised>>
              ELSE /\ txn' = Rollback("aborted")
                   /\ raised' = "DatabaseError"
                   /\ pc' = "populate_exit"
                   /\ UNCHANGED <<leaderboard, i, score_ids>>
    /\ UNCHANGED <<users, connection, caller, exit_code, steps, count, distribution,
                   batch_size, usernames, attempts, username_list, scores, pro_indices,
                   next_user_id, clear, user_ids, benchVars>>

\* the batch loop is over; get_current_stats() prints the counts; main leaves its try
InsertLeaderboardDone ==
    /\ pc = "insert_leaderboard"
    /\ i >= Len(scores)
    /\ steps' = Append(steps, "insert_leaderboard")
    /\ pc' = "populate_exit"
    /\ i' = 0
    /\ UNCHANGED <<users, leaderboard, connection, txn, caller, raised, exit_code,
                   genVars, benchVars>>

\* main() of populate_data.py: except Exception: sys.exit(1); finally disconnect()
PopulateExit ==
    /\ pc = "populate_exit"
    /\ connection' = "closed"
    /\ IF raised = "none"
       THEN pc' = "populated" /\ UNCHANGED exit_code
       ELSE pc' = "done" /\ exit_code' = ExitStatus(raised)
    /\ UNCHANGED <<users, leaderboard, txn, caller, i, raised, steps, genVars, benchVars>>

\* a PerformanceTester connects to the populated provider: connect() as in ConnectOk
TesterConnects ==
    /\ pc = "populated"
    /\ connection' = "open"
    /\ txn' = IF pgss THEN "intrans" ELSE "aborted"
    /\ caller' = "direct"
    /\ pc' = "idle"
    /\ steps' = <<>>
    /\ count' = 0
    /\ distribution' = "normal"
    /\ batch_size' = 1000
    /\ usernames' = {}
    /\ attempts' = 0
    /\ username_list' = <<>>
    /\ scores' = <<>>
    /\ pro_indices' = <<>>
    /\ clear' = FALSE
    /\ user_ids' = <<>>
    /\ score_ids' = <<>>
    /\ UNCHANGED <<users, leaderboard, i, raised, exit_code, next_user_id, benchVars>>

\* main() of populate_data.py on an empty provider, connected, the sequence at 1
InitGen ==
    /\ users = << >>
    /\ leaderboard = << >>
    /\ pgss \in BOOLEAN
    /\ iterations = 1
    /\ user_sample = MaxUserSample
    /\ connection = "open"
    /\ txn = "idle"
    /\ pc = "generate_usernames"
    /\ caller = "populate"
    /\ NoLocals
    /\ FreshTester
    /\ count \in 0..MaxCount
    /\ distribution \in Distributions
    /\ batch_size \in BatchSizes
    /\ usernames = {}
    /\ attempts = 0
    /\ username_list = <<>>
    /\ scores = <<>>
    /\ pro_indices = <<>>
    /\ next_user_id = 1
    /\ clear = TRUE
    /\ user_ids = <<>>
    /\ score_ids = <<>>

NextGen ==
    \/ GenerateUsernameAttempt
    \/ GenerateUsernamesEnd
    \/ InsertUsersBatch
    \/ InsertUsersDone
    \/ GenerateScores
    \/ InsertLeaderboardBatch
    \/ InsertLeaderboardDone
    \/ PopulateExit
    \/ TesterConnects
    \/ NextOps

SpecGen == InitGen /\ [][NextGen]_vars

-----------------------------------------------------------------------------
\* main() of populate_data.py from its first statement, on a provider that may
\* hold the data of earlier runs, with and without --clear

\* what earlier runs have left: users 1..e, leaderboard rows of users 1..r and
\* the SERIAL sequence at e + 1 or beyond (deleted rows and rolled back inserts
\* do not give their values back)
ExistingData ==
    {[users |-> [u \in 1..e |-> TRUE],
      leaderboard |-> [u \in 1..r |-> [score |-> 500, games_played |-> 1]],
      next_user_id |-> n] :
        e \in 0..MaxExisting, r \in 0..MaxExisting, n \in 1..(MaxExisting + 1)}

InitPopulate ==
    /\ \E d \in {x \in ExistingData : /\ DOMAIN x.leaderboard \subseteq DOMAIN x.users
                                       /\ \A u \in DOMAIN x.users : u < x.next_user_id} :
          /\ users = d.users
          /\ leaderboard = d.leaderboard
          /\ next_user_id = d.next_user_id
    /\ pgss = TRUE
    /\ iterations = 1
    /\ user_sample = MaxUserSample
    /\ connection = "open"
    /\ txn = "idle"
    /\ pc = "clear"
    /\ caller = "populate"
    /\ NoLocals
    /\ FreshTester
    /\ count \in 0..MaxCount
    /\ distribution \in Distributions
    /\ batch_size \in BatchSizes
    /\ usernames = {}
    /\ attempts = 0
    /\ username_list = <<>>
    /\ scores = <<>>
    /\ pro_indices = <<>>
    /\ clear \in BOOLEAN
    /\ user_ids = <<>>
    /\ score_ids = <<>>

\* if args.clear: TRUNCATE leaderboard, users RESTART IDENTITY CASCADE; commit
ClearExisting ==
    /\ pc = "clear"
    /\ IF clear
       THEN \E ok \in BOOLEAN :
              IF ok
              THEN /\ users' = << >>
                   /\ leaderboard' = << >>
                   /\ next_user_id' = 1
                   /\ txn' = Commit("intrans")
                   /\ steps' = Append(steps, "clear")
                   /\ pc' = "generate_usernames"
                   /\ UNCHANGED raised
              ELSE /\ raised' = "DatabaseError"
                   /\ txn' = "aborted"
                   /\ pc' = "populate_exit"
                   /\ UNCHANGED <<users, leaderboard, next_user_id, steps>>
       ELSE /\ pc' = "generate_usernames"
            /\ UNCHANGED <<users, leaderboard, next_user_id, txn, steps, raised>>
    /\ UNCHANGED <<connection, caller, i, exit_code, count, distribution, batch_size,
                   usernames, attempts, username_list, scores, pro_indices, clear,
                   user_ids, score_ids, benchVars>>

\* the run ends where main() returns or exits
NextPopulate ==
    \/ ClearExisting
    \/ GenerateUsernameAttempt
    \/ GenerateUsernamesEnd
    \/ InsertUsersBatch
    \/ InsertUsersDone
    \/ GenerateScores
    \/ InsertLeaderboardBatch
    \/ InsertLeaderboardDone
    \/ PopulateExit

SpecPopulate == InitPopulate /\ [][NextPopulate]_vars

\* generate_scores called on its own with any count and kind
InitScoresOnly ==
    /\ users = << >>
    /\ leaderboard = << >>
    /\ pgss = TRUE
    /\ iterations = 0
    /\ user_sample = 1
    /\ connection = "none"
    /\ txn = "idle"
    /\ pc = "generate_scores"
    /\ caller = "generate_scores"
    /\ NoLocals
    /\ FreshTester
    /\ count \in (0..MaxCount) \union LargeCounts
    /\ distribution \in Distributions \union OtherDistributions
    /\ batch_size = 1000
    /\ usernames = {}
    /\ attempts = 0
    /\ username_list = <<>>
    /\ scores = <<>>
    /\ pro_indices = <<>>
    /\ next_user_id = 1
    /\ clear = FALSE
    /\ user_ids = <<>>
    /\ score_ids = <<>>

NextScores == GenerateScores

SpecScores == InitScoresOnly /\ [][NextScores]_vars

-----------------------------------------------------------------------------
\* _calculate_statistics on its own: the list of measured durations is drawn
\* from the samples of up to MaxSample durations, empty sample included

\* the durations (ms) a sample is made of
SampleDurations == {1, 2, 10}

Samples == UNION {[1..n -> SampleDurations] : n \in 0..MaxSample}

InitStats ==
    /\ users = << >>
    /\ leaderboard = << >>
    /\ pgss = TRUE
    /\ iterations = 0
    /\ user_sample = 1
    /\ connection = "open"
    /\ txn = "idle"
    /\ pc = "statistics"
    /\ caller = "direct"
    /\ op = "score_update" /\ i = 0 /\ q = 0
    /\ min_user_id = 0 /\ max_test_user = 0 /\ user_id = 0
    /\ outcome = "none"
    /\ \E sample \in Samples : times = [o \in OpNames |-> IF o = op THEN sample ELSE <<>>]
    /\ issued = [o \in OpNames |-> 0]
    /\ failed = [o \in OpNames |-> 0]
    /\ rankResult = NoRank
    /\ results = << >>
    /\ raised = "none"
    /\ warmAttempts = 0
    /\ calls = 0
    /\ exit_code = -1
    /\ database_stats = "none"
    /\ steps = <<>>
    /\ reported = FALSE
    /\ pending = << >>
    /\ NoGenerator

\* return self._calculate_statistics(times, "Score Update")
SummarizeSample ==
    /\ pc = "statistics"
    /\ results' = (op :> CalculateStatistics(times[op], OperationName(op))) @@ results
    /\ pc' = "returned"
    /\ UNCHANGED <<users, leaderboard, pgss, iterations, user_sample, connection, txn,
                   caller, op, i, q, min_user_id, max_test_user, user_id, times, issued,
                   failed, outcome, rankResult, raised, warmAttempts, calls, exit_code,
                   database_stats, steps, reported, pending>>
    /\ UNCHANGED genVars

NextStats == SummarizeSample

SpecStats == InitStats /\ [][NextStats]_vars

(* =============================== claims ================================ *)
\* active entities whose score is strictly greater than that of id
StrictlyGreater(id) ==
    {e \in ActiveRows(users, leaderboard) : leaderboard[e].score > leaderboard[id].score}

\* C1: on every fixed population snapshot and for every active target, the
\* counting query and the window query return the same rank, which is
\* 1 + the number of active entities with a strictly greater score; the row
\* fetched by the last rank query carries exactly that rank.
C1_RanksAgree ==
    (rankResult.strategy # "none" /\ rankResult.user_id \in ActiveRows(users, leaderboard))
       => /\ rankResult.row.found
          /\ rankResult.row.position = 1 + Cardinality(StrictlyGreater(rankResult.user_id))
          /\ rankResult.row = RankByCount(users, leaderboard, rankResult.user_id)
          /\ rankResult.row = RankByWindow(users, leaderboard, rankResult.user_id)

\* the window query answered rank 3 for a target below a tie of two active
\* entities, while an inactive entity with a greater score is not counted
C1_Witness ==
    /\ rankResult.strategy = "window"
    /\ rankResult.row.found
    /\ rankResult.row.position = 3
    /\ \E a, b \in StrictlyGreater(rankResult.user_id) :
          a # b /\ leaderboard[a].score = leaderboard[b].score
    /\ \E e \in DOMAIN leaderboard :
          ~users[e] /\ leaderboard[e].score > rankResult.row.score

\* the population of the example: five active entities scoring 500, 500, 500, 400, 600
TiePopulation ==
    /\ DOMAIN leaderboard = 1..5
    /\ \A u \in 1..5 : users[u]
    /\ Cardinality({u \in 1..5 : leaderboard[u].score = 500}) = 3
    /\ Cardinality({u \in 1..5 : leaderboard[u].score = 400}) = 1
    /\ Cardinality({u \in 1..5 : leaderboard[u].score = 600}) = 1

\* the rank query just run, and both strategies, give its target the rank want[score]
TieRanksAre(want) ==
    (rankResult.strategy # "none" /\ rankResult.user_id \in DOMAIN leaderboard)
       => /\ rankResult.row.found
          /\ rankResult.row.position = want[rankResult.row.score]
          /\ RankByCount(users, leaderboard, rankResult.user_id).position
                = want[rankResult.row.score]
          /\ RankByWindow(users, leaderboard, rankResult.user_id).position
                = want[rankResult.row.score]

\* C2 as stated: in the tie population the 600-scorer ranks 1, the 500-scorers
\* rank 2 and the 400-scorer ranks 4, under both strategies.
C2_Original ==
    TiePopulation => TieRanksAre((600 :> 1) @@ (500 :> 2) @@ (400 :> 4))

\* C2 amended: in the tie population (three entities at 500) the 600-scorer
\* ranks 1, the 500-scorers rank 2 and the 400-scorer ranks 5, under both
\* strategies.
C2_TieRanks ==
    TiePopulation => TieRanksAre((600 :> 1) @@ (500 :> 2) @@ (400 :> 5))

\* the window query was run for the 400-scorer of the tie population
C2_Witness ==
    /\ TiePopulation
    /\ rankResult.strategy = "window"
    /\ rankResult.row.found
    /\ rankResult.row.score = 400
    /\ rankResult.row.position = 5

\* benchmark o has returned its statistics and is not being run again
Returned(o) == o \in DOMAIN results /\ o # op

\* this step is a trial of the running benchmark taking its except branch
TrialFailedStep == pc = "trial" /\ failed'[op] = failed[op] + 1

\* C3: in each of the four benchmarks all N = iterations trials are issued
\* whichever trials fail: a trial whose execute or commit raises is rolled
\* back, raises nothing out of the benchmark, and leaves the loop at trial
\* k + 1; a benchmark that returns has issued exactly N trials.
C3_AllTrialsAttempted ==
    /\ [](\A o \in OpNames : Returned(o) => issued[o] = iterations)
    /\ [][TrialFailedStep =>
             /\ txn' = "idle"
             /\ raised' = "none"
             /\ pc' = "trial" /\ op' = op
             /\ i' = i + 1
             /\ issued'[op] = i + 1]_vars

\* the first update trial failed on commit and the second one then succeeded
C3_Witness ==
    /\ pc = "trial" /\ op = "score_update"
    /\ iterations = 2 /\ i = 2
    /\ failed[op] = 1 /\ Len(times[op]) = 1
    /\ outcome = "ok" /\ txn = "idle"

\* C4: for every benchmark that returned with at least one successful trial,
\* the reported sample_size is iterations minus the number of its failed
\* trials (hence at most iterations).
C4_SampleSize ==
    \A o \in OpNames :
        (Returned(o) /\ failed[o] < iterations)
           => /\ "sample_size" \in DOMAIN results[o]
              /\ results[o].sample_size = iterations - failed[o]
              /\ results[o].sample_size <= iterations

\* a benchmark of two trials returned sample_size 1 after one failed trial
C4_Witness ==
    \E o \in OpNames :
        /\ Returned(o) /\ iterations = 2 /\ failed[o] = 1
        /\ results[o].sample_size = 1

\* C5: a failed trial of one benchmark changes neither the timing samples nor
\* the stored statistics of any other benchmark, and the statistics of every
\* returned benchmark are those of its own successful trials only.
C5_FailureIsLocal ==
    /\ [][TrialFailedStep =>
             \A p \in OpNames \ {op} :
                 /\ times'[p] = times[p]
                 /\ p \in DOMAIN results
                       => p \in DOMAIN results' /\ results'[p] = results[p]]_vars
    /\ [](\A o \in OpNames :
             Returned(o) =>
                 /\ results[o] = CalculateStatistics(times[o], OperationName(o))
                 /\ Len(times[o]) = issued[o] - failed[o])

\* a counting-rank trial failed while the update benchmark keeps its full sample
C5_Witness ==
    /\ pc = "trial" /\ op = "user_ranking"
    /\ failed[op] >= 1
    /\ iterations = 2
    /\ Returned("score_update")
    /\ failed["score_update"] = 0
    /\ results["score_update"].sample_size = 2
    /\ Len(times["score_update"]) = 2

\* C6 as stated: the number of failed trials of a returned benchmark is part
\* of the result handed to reporting, next to the sample of durations.
C6_FailuresReported ==
    \A o \in OpNames :
        (Returned(o) /\ failed[o] > 0)
           => /\ "failed_trials" \in DOMAIN results[o]
              /\ results[o].failed_trials = failed[o]

\* this step executes one warm-up query
WarmUpStep == pc = "warm_up" /\ warmAttempts' = warmAttempts + 1

\* C7: warm-up appends to no list of timing samples and adds no entry to the
\* results; a failing warm-up query is rolled back and the loop goes on, so
\* that all 3 * rounds queries have run when warm-up ends.
C7_WarmUpRecordsNothing ==
    /\ [][pc = "warm_up" => times' = times /\ results' = results]_vars
    /\ [][(WarmUpStep /\ outcome' # "ok") => txn' = "idle" /\ pc' = "warm_up"]_vars
    /\ [](pc = "reset" =>
             /\ warmAttempts = 3 * WarmUpIterations
             /\ \A o \in OpNames : times[o] = <<>>
             /\ results = << >>)

\* without pg_stat_statements the first warm-up query runs in an aborted
\* transaction and fails; the last query of the last round still succeeds
C7_Witness ==
    /\ ~pgss
    /\ pc = "warm_up"
    /\ warmAttempts = 3 * WarmUpIterations
    /\ outcome = "ok"
    /\ txn = "idle"

\* C8: on an empty leaderboard a benchmark that needs the id bounds issues no
\* trial, appends no timing sample and returns no statistics; once the bounds
\* query has answered, the benchmark raises the empty-population ValueError.
C8_EmptyPopulation ==
    /\ []((DOMAIN leaderboard = {} /\ NeedsBounds(op)) =>
             /\ pc # "trial"
             /\ issued[op] = 0
             /\ times[op] = <<>>
             /\ op \notin DOMAIN results)
    /\ [][(pc = "bounds" /\ DOMAIN leaderboard = {}) =>
             pc' = "raise" /\ raised' = "ValueError"]_vars

\* the window-rank benchmark called on an empty leaderboard raised ValueError
C8_Witness ==
    /\ DOMAIN leaderboard = {}
    /\ op = "user_ranking_window"
    /\ pc = "stopped"
    /\ raised = "ValueError"
    /\ issued[op] = 0

\* the id drawn by the last trial of a benchmark that reads the bounds
TrialDrewId == pc = "trial" /\ NeedsBounds(op) /\ issued[op] > 0

\* C9 as stated: every drawn id lies in
\* [min_id, max(min_id, min(max_id, sample_bound))].
C9_Original ==
    TrialDrewId =>
        LET lo == BoundsRow(leaderboard).min
            hi == BoundsRow(leaderboard).max
        IN  user_id \in lo..Max2(lo, Min2(hi, user_sample))

\* C9 amended: every drawn id lies in [min_id, upper], where upper is
\* min(max_id, sample_bound) when sample_bound >= min_id and max_id (the full
\* range) when sample_bound < min_id; the three benchmarks use the same rule.
C9_IdRange ==
    TrialDrewId =>
        LET lo == BoundsRow(leaderboard).min
            hi == BoundsRow(leaderboard).max
        IN  /\ lo <= hi
            /\ user_id \in lo..(IF user_sample >= lo THEN Min2(hi, user_sample) ELSE hi)

\* with sample_bound below min_id a counting-rank trial drew max_id > min_id
C9_Witness ==
    /\ TrialDrewId
    /\ op = "user_ranking"
    /\ user_sample < BoundsRow(leaderboard).min
    /\ BoundsRow(leaderboard).min < BoundsRow(leaderboard).max
    /\ user_id = BoundsRow(leaderboard).max

\* C10: statistics over zero successful durations are the explicit
\* empty-sample error value, never a statistics record: a benchmark that
\* returns without a successful trial stores the error and no sample_size.
C10_EmptySample ==
    \A o \in OpNames :
        (Returned(o) /\ times[o] = <<>>)
           => /\ results[o] = ErrorResult
              /\ "error" \in DOMAIN results[o]
              /\ "sample_size" \notin DOMAIN results[o]

\* both trials of a benchmark failed and its entry is the error value
C10_Witness ==
    \E o \in OpNames :
        /\ Returned(o)
        /\ iterations = 2 /\ failed[o] = 2
        /\ results[o] = ErrorResult

(* ------------------------- the orchestrator ---------------------------- *)
\* the steps of a complete run_complete_test_suite followed by main's report
SuiteOrder ==
    <<"database_stats", "warm_up", "reset",
      "score_update", "top_leaderboard", "user_ranking", "user_ranking_window",
      "pg_stat_statements", "report">>

IsPrefix(s, t) == Len(s) <= Len(t) /\ \A k \in 1..Len(s) : s[k] = t[k]

StepDone(x) == \E k \in 1..Len(steps) : steps[k] = x

\* the session is connected to a provider with the counter facility and a
\* non-empty population: per-trial failures are the only failures of the benchmarks
OnlyTrialsFail == connection # "none" /\ pgss /\ DOMAIN leaderboard # {}

\* C11: on a non-empty population (counter facility available, so that trials
\* are the only thing that fails) no pattern of failed trials stops the
\* orchestrator: nothing is raised before the report is returned, and the
\* returned report has an entry for each of the four operations, every
\* operation having issued all its trials; an operation with at least one
\* successful trial has the full statistics record over its successful
\* trials only, the others the empty-sample error value.
C11_ReportComplete ==
    OnlyTrialsFail =>
        /\ raised # "none" => StepDone("report")
        /\ pc \in {"disconnect", "done"} => StepDone("report")
        /\ StepDone("report") =>
              /\ DOMAIN results = OpNames
              /\ \A o \in OpNames :
                    /\ issued[o] = iterations
                    /\ Len(times[o]) = iterations - failed[o]
                    /\ Len(times[o]) >= 1 =>
                          /\ results[o] = ComputeStats(times[o], OperationName(o))
                          /\ results[o].sample_size = iterations - failed[o]
                    /\ Len(times[o]) = 0 => results[o] = ErrorResult

\* every update trial failed, one top-N trial failed, and the report has four entries
C11_Witness ==
    /\ OnlyTrialsFail
    /\ StepDone("report")
    /\ iterations = 2
    /\ failed["score_update"] = 2 /\ results["score_update"] = ErrorResult
    /\ DOMAIN results = OpNames
    /\ failed["top_leaderboard"] = 1
    /\ results["top_leaderboard"] = ComputeStats(times["top_leaderboard"], "SELECT TOP 10")
    /\ results["top_leaderboard"].sample_size = 1
    /\ failed["user_ranking"] = 0

\* C12: the steps of the orchestrator are taken in the one order database
\* statistics, warm-up, counter reset, update, top-N, counting rank, window
\* rank, counter capture, report: the steps finished so far are always a
\* prefix of that order, a benchmark runs exactly when all steps before it
\* are finished (so no trial precedes the end of warm-up and of the reset),
\* and a session that ends without an error has finished all nine.
C12_FixedOrder ==
    /\ IsPrefix(steps, SuiteOrder)
    /\ pc \in {"bench_start", "bounds", "trial", "raise"} =>
          /\ Len(steps) >= 3
          /\ SuiteOrder[Len(steps) + 1] = op
    /\ \A o \in OpNames :
          issued[o] > 0 =>
              /\ StepDone("warm_up") /\ StepDone("reset")
              /\ warmAttempts = 3 * WarmUpIterations
              /\ \A k \in 1..Len(SuiteOrder) :
                    (SuiteOrder[k] = o /\ k > 1) => StepDone(SuiteOrder[k - 1])
    /\ (pc = "done" /\ raised = "none") => steps = SuiteOrder

\* a complete session: nine steps, the window-rank benchmark measured last
C12_Witness ==
    /\ pc = "done" /\ raised = "none" /\ exit_code = 0
    /\ steps = SuiteOrder
    /\ iterations = 2
    /\ \A o \in OpNames : issued[o] = 2

(* --------------------------- cancellation ------------------------------ *)
Interrupted == raised = "KeyboardInterrupt"

\* C13: once an external interrupt has arrived during a trial no further
\* trial is issued and no record changes; the interrupted trial is either
\* committed whole (score and play count of one record) or not at all, the
\* program goes straight to teardown, and when it has ended the connection
\* is closed and nothing the trial wrote without committing is left.
C13_InterruptStopsTrials ==
    /\ [](Interrupted =>
             /\ pc \in {"disconnect", "done"}
             /\ pc = "done" => connection = "closed" /\ pending = << >>)
    /\ [][Interrupted =>
             /\ issued' = issued /\ times' = times
             /\ leaderboard' = leaderboard
             /\ pc' = "done"]_vars
    /\ [][(~Interrupted /\ Interrupted') =>
             /\ pc = "trial" /\ pc' = "disconnect"
             /\ \/ leaderboard' = leaderboard
                \/ \E id \in DOMAIN leaderboard, delta \in Deltas :
                      leaderboard' = ApplyScoreDelta(leaderboard, id, delta)]_vars

\* the second update trial was interrupted between execute and commit: the
\* session has ended, the connection is closed and the update is not stored
C13_Witness ==
    /\ Interrupted /\ pc = "done" /\ connection = "closed"
    /\ op = "score_update" /\ issued[op] = 2 /\ Len(times[op]) = 1
    /\ txn = "intrans" /\ pending = << >>
    /\ \E id \in DOMAIN leaderboard : leaderboard[id].games_played = 2
    /\ \A id \in DOMAIN leaderboard : leaderboard[id].games_played <= 2

\* C14: when an interrupted session has ended, the results have been
\* reported and every benchmark that had collected timing samples, the
\* interrupted one included, has an entry over exactly those samples.
C14_PartialResultsReported ==
    (Interrupted /\ pc = "done") =>
        /\ reported
        /\ \A o \in OpNames :
              times[o] # <<>> =>
                  /\ o \in DOMAIN results
                  /\ results[o] = ComputeStats(times[o], OperationName(o))

(* ---------------------------- fatal errors ----------------------------- *)
\* an error that ends the session before run_complete_test_suite has returned
FatalBeforeReport == raised \in {"SystemExit", "ValueError", "DatabaseError"} /\ ~StepDone("report")

NothingMeasured == \A o \in OpNames : issued[o] = 0 /\ times[o] = <<>>

\* C15: a session whose error precedes the report never outputs a report and
\* ends with exit status 1; nothing at all is measured when the provider is
\* unreachable (not even a warm-up query), and no trial is issued by any
\* benchmark when the population is empty: the error leaves the first
\* benchmark before its loop and no benchmark follows.
C15_FatalError ==
    FatalBeforeReport =>
        /\ ~reported
        /\ pc \in {"raise", "disconnect", "done"}
        /\ pc = "done" => exit_code = 1
        /\ raised = "SystemExit" =>
              /\ connection = "none" /\ warmAttempts = 0 /\ steps = <<>>
              /\ NothingMeasured /\ results = << >>
        /\ (raised = "ValueError" /\ DOMAIN leaderboard = {}) =>
              /\ op = OpOrder[1]
              /\ NothingMeasured /\ results = << >>

\* the population is empty: the update benchmark raised and the session ended with 1
C15_Witness ==
    /\ pc = "done" /\ exit_code = 1 /\ ~reported
    /\ raised = "ValueError" /\ DOMAIN leaderboard = {}
    /\ iterations = 2
    /\ warmAttempts = 3 * WarmUpIterations

(* --------------------------- the generators --------------------------- *)
\* C16: no score is ever negative: neither an element of the list that
\* generate_scores returned (for each of the four kinds, whatever floats were
\* drawn) nor the score of a stored record, whatever update trials have
\* succeeded or failed on it since it was inserted.
C16_ScoresNonNegative ==
    /\ \A k \in DOMAIN scores : scores[k] >= 0
    /\ \A u \in DOMAIN leaderboard : leaderboard[u].score >= 0

\* a record that was generated from a negative draw (score 0) next to a record
\* that an update trial has raised from 0 to 10
C16_Witness ==
    /\ pc = "idle" /\ "score_update" \in DOMAIN results
    /\ \E u, v \in DOMAIN leaderboard :
          /\ leaderboard[u].score = 0 /\ leaderboard[u].games_played = 1
          /\ leaderboard[v].score = 10 /\ leaderboard[v].games_played = 2

Distinct(l) == \A a, b \in DOMAIN l : l[a] = l[b] => a = b

\* C17: when generate_usernames is over it has either returned a list of
\* exactly count pairwise different names, or raised the ValueError of the
\* exhausted attempt budget and returned nothing.
C17_NamesExactOrError ==
    /\ pc = "insert_users" =>
          /\ StepDone("generate_usernames")
          /\ Len(username_list) = count
          /\ Distinct(username_list)
          /\ {username_list[k] : k \in DOMAIN username_list} = usernames
    /\ (caller = "populate" /\ pc # "generate_usernames") =>
          \/ StepDone("generate_usernames")
          \/ /\ raised = "ValueError" /\ username_list = <<>>
             /\ Cardinality(usernames) < count

\* three names were returned after five attempts, two of which proposed a name
\* that was already admitted
C17_Witness ==
    /\ pc = "insert_users" /\ i = 0
    /\ count = 3 /\ attempts = 5
    /\ Len(username_list) = 3

\* C18: the loop of generate_usernames makes at most count * 10 attempts and
\* admits at most count names: every iteration is entered below both limits
\* and adds one to the attempts, and the loop is left as soon as count names
\* are admitted or the count * 10 attempts are used up.
C18_BoundedAttempts ==
    /\ [](pc \in {"generate_usernames", "insert_users"} =>
             /\ attempts <= count * 10
             /\ Cardinality(usernames) <= count
             /\ Cardinality(usernames) <= attempts)
    /\ [](pc = "insert_users" =>
             Cardinality(usernames) = count \/ attempts = count * 10)
    /\ [][(pc = "generate_usernames" /\ pc' = "generate_usernames") =>
             /\ attempts' = attempts + 1
             /\ Cardinality(usernames) < count
             /\ attempts < count * 10
             /\ Cardinality(usernames') <= Cardinality(usernames) + 1]_vars

\* the loop is running: four attempts have admitted two of three names
C18_Witness ==
    /\ pc = "generate_usernames"
    /\ count = 3 /\ attempts = 4
    /\ Cardinality(usernames) = 2

\* C19: for each of the four kinds and every count >= 1, generate_scores
\* raises nothing and returns exactly count integers, all >= 0; for the skewed
\* kind the bonus went to exactly max(1, count div 100) pairwise different
\* positions and to no other.
C19_ScoresCountAndRange ==
    (pc = "returned" /\ count >= 1 /\ distribution \in Distributions) =>
        /\ raised = "none"
        /\ Len(scores) = count
        /\ \A k \in 1..count : scores[k] \in Nat
        /\ distribution # "skewed" => pro_indices = <<>>
        /\ distribution = "skewed" =>
              /\ Len(pro_indices) = Max2(1, count \div 100)
              /\ Distinct(pro_indices)
              /\ {k \in 1..count : scores[k] >= 5000}
                    = {pro_indices[n] + 1 : n \in DOMAIN pro_indices}

\* 200 skewed scores were returned, two of them with the bonus
C19_Witness ==
    /\ pc = "returned" /\ raised = "none"
    /\ distribution = "skewed" /\ count = 200
    /\ Len(scores) = 200 /\ Len(pro_indices) = 2
    /\ scores[1] >= 5000 /\ scores[200] >= 5000 /\ scores[2] = 0

\* C20: generate_scores(0, kind) returns the empty list and raises nothing,
\* for each of the four kinds.
C20_EmptyRequest ==
    (pc = "returned" /\ count = 0 /\ distribution \in Distributions) =>
        /\ raised = "none"
        /\ StepDone("generate_scores")
        /\ scores = <<>>


-----------------------------------------------------------------------------
\* fractions <<numerator, denominator>> with a positive denominator
FracLeq(a, b) == a[1] * b[2] <= b[1] * a[2]

FracEq(a, b) == a[1] * b[2] = b[1] * a[2]

Whole(x) == <<x, 1>>

\* the k-th smallest duration of a sample, stated without sorting it
OrderStat(s, k) ==
    CHOOSE v \in {s[j] : j \in 1..Len(s)} :
        /\ Cardinality({j \in 1..Len(s) : s[j] < v}) < k
        /\ k <= Cardinality({j \in 1..Len(s) : s[j] <= v})

\* p (in percent) is the linear interpolation between the two order statistics
\* around the virtual index (n - 1) * p / 100
Interpolates(s, p, value) ==
    LET n  == Len(s)
        h  == (n - 1) * p
        k  == h \div 100 + 1
        k2 == IF k < n THEN k + 1 ELSE n
    IN  /\ FracLeq(Whole(OrderStat(s, k)), value)
        /\ FracLeq(value, Whole(OrderStat(s, k2)))
        /\ FracEq(value, <<100 * OrderStat(s, k)
                             + (h - 100 * (k - 1)) * (OrderStat(s, k2) - OrderStat(s, k)),
                           100>>)

\* the statistics of a sample have been computed
Summarized == pc = "returned" /\ op \in DOMAIN results

\* C21: for every non-empty sample of durations the statistics satisfy
\* min <= median <= max, min <= mean <= max and p95 <= p99 <= max, and p95 and
\* p99 are linear interpolations between order statistics of the sample
C21_StatisticsOrdered ==
    (Summarized /\ times[op] # <<>>) =>
        LET r == results[op]
            s == times[op]
        IN  /\ r.min_ms = OrderStat(s, 1)
            /\ r.max_ms = OrderStat(s, Len(s))
            /\ FracLeq(Whole(r.min_ms), r.median_ms)
            /\ FracLeq(r.median_ms, Whole(r.max_ms))
            /\ FracLeq(Whole(r.min_ms), r.mean_ms)
            /\ FracLeq(r.mean_ms, Whole(r.max_ms))
            /\ FracLeq(r.p95_ms, r.p99_ms)
            /\ FracLeq(r.p99_ms, Whole(r.max_ms))
            /\ Interpolates(s, 95, r.p95_ms)
            /\ Interpolates(s, 99, r.p99_ms)

\* an unsorted sample of three distinct durations whose p95 and p99 lie strictly
\* between its two largest durations
C21_Witness ==
    /\ Summarized
    /\ times[op] = <<10, 1, 2>>
    /\ results[op].p95_ms = <<920, 100>>
    /\ results[op].p99_ms = <<984, 100>>
    /\ results[op].median_ms = <<4, 2>>
    /\ results[op].mean_ms = <<13, 3>>

\* C22: for a sample of one duration d the statistics are sample_size = 1,
\* stdev = 0 and min = max = mean = median = p95 = p99 = d
C22_SingletonSample ==
    (Summarized /\ Len(times[op]) = 1) =>
        LET r == results[op]
            d == times[op][1]
        IN  /\ r.sample_size = 1
            /\ r.stdev_ms[2] > 0 /\ r.stdev_ms[1] = 0
            /\ r.min_ms = d
            /\ r.max_ms = d
            /\ r.mean_ms[2] > 0 /\ FracEq(r.mean_ms, Whole(d))
            /\ r.median_ms[2] > 0 /\ FracEq(r.median_ms, Whole(d))
            /\ r.p95_ms[2] > 0 /\ FracEq(r.p95_ms, Whole(d))
            /\ r.p99_ms[2] > 0 /\ FracEq(r.p99_ms, Whole(d))

C22_Witness ==
    /\ Summarized
    /\ times[op] = <<10>>
    /\ results[op].sample_size = 1
    /\ results[op].max_ms = 10
    /\ results[op].stdev_ms = <<0, 1>>

(* ------------------------ the counter reset ---------------------------- *)
\* the reset statement has been tried on a provider without the counter
\* facility, over a population that is not empty
ResetFailed == StepDone("reset") /\ ~pgss /\ DOMAIN leaderboard # {}

\* C23 as stated: a failed reset of the provider's counters is a warning only;
\* the four benchmarks still run in the fixed order and the session ends with a
\* report that has the four entries.
C23_ResetFailureIsWarning ==
    /\ (ResetFailed /\ pc \in {"raise", "disconnect", "done"}) =>
            /\ raised = "none"
            /\ DOMAIN results = OpNames
            /\ StepDone("report")
    /\ (ResetFailed /\ pc = "done") => exit_code = 0

(* ----------------------- who writes the records ------------------------ *)
\* this step is a trial of the update benchmark that recorded a duration
UpdateTrialSucceeds ==
    /\ pc = "trial" /\ op = "score_update"
    /\ Len(times'[op]) = Len(times[op]) + 1

\* the records differ exactly by delta added to the score and 1 to the play
\* count of the record of id, for a delta of 10..500
OneRecordUpdated(before, after, id) ==
    /\ DOMAIN after = DOMAIN before
    /\ \A u \in DOMAIN before \ {id} : after[u] = before[u]
    /\ id \in DOMAIN before =>
          /\ after[id].score - before[id].score \in 10..500
          /\ after[id].games_played = before[id].games_played + 1

\* C24: only a successful trial of the update benchmark changes the records: it
\* adds its delta of 10..500 to the score and 1 to the play count of exactly the
\* selected id. Every other step (a failed update trial, a trial of the top-N,
\* counting-rank or window-rank benchmark, a warm-up query) leaves every record
\* as it is, so the two rank benchmarks, which follow the update benchmark,
\* read the same records.
C24_OnlyUpdatesWrite ==
    [][/\ users' = users
       /\ IF UpdateTrialSucceeds
          THEN /\ user_id' \in min_user_id..max_test_user
               /\ user_id' \in DOMAIN leaderboard
               /\ OneRecordUpdated(leaderboard, leaderboard', user_id')
          ELSE leaderboard' = leaderboard]_vars

\* of two records one has been updated by the second trial, after the first
\* trial failed, and the window-rank benchmark has read them since
C24_Witness ==
    /\ Cardinality(DOMAIN leaderboard) = 2
    /\ failed["score_update"] = 1
    /\ Len(times["score_update"]) = 1
    /\ \E u \in DOMAIN leaderboard :
          /\ leaderboard[u] = [score |-> 510, games_played |-> 2]
          /\ \A v \in DOMAIN leaderboard \ {u} : leaderboard[v] = [score |-> 500, games_played |-> 1]
    /\ op = "user_ranking_window"
    /\ rankResult.strategy = "window"

(* ------------------- the names never run out --------------------------- *)
\* this step is an attempt of generate_usernames that uses the third template,
\* the one that carries len(usernames) + 1
FallbackAttempt ==
    /\ pc = "generate_usernames"
    /\ attempts' = attempts + 1
    /\ attempts' % 3 = 2

\* C25: generate_usernames never fails for lack of names, whatever count >= 0:
\* of three consecutive attempts one uses the template seeded with the number
\* of names admitted so far, whose candidate is never in the set already, so
\* every such attempt admits a name, count names are admitted within 3 * count
\* attempts, below the budget of count * 10, and the run goes on to insert them.
C25_NeverExhausted ==
    /\ []((caller = "populate" /\ pc = "generate_usernames") =>
              /\ attempts <= 3 * count
              /\ attempts <= MaxAttempts(count)
              /\ Cardinality(usernames) >= (attempts + 1) \div 3)
    /\ []((caller = "populate" /\ pc # "generate_usernames") =>
              /\ StepDone("generate_usernames")
              /\ ~(raised = "ValueError" /\ ~StepDone("insert_users")))
    /\ [][FallbackAttempt => Cardinality(usernames') = Cardinality(usernames) + 1]_vars

\* three names were asked for; the third and the fourth attempt drew a name
\* that was already in the set, and the fifth, a fallback, admitted the third
C25_Witness ==
    /\ caller = "populate"
    /\ pc = "generate_usernames"
    /\ count = 3
    /\ attempts = 5
    /\ usernames = {FormatPrefixSuffixNumber("Pro", <<"2", "0", "2", "3">>, 1),
                    FormatUserNumber(2, 100), FormatUserNumber(3, 100)}

(* -------------------- whose scores a run stores ------------------------ *)
\* a run of populate_data.py has stored all its users and all its scores
RunComplete == caller = "populate" /\ StepDone("insert_leaderboard")

\* C26 as stated: after every population run, with --clear or without it, every
\* score row the run has stored belongs to a user the same run has stored: the
\* i-th score is stored under the id the provider gave to the i-th user.
C26_ScoresOwnedByRun ==
    RunComplete =>
        /\ Len(score_ids) = count
        /\ Len(user_ids) = count
        /\ \A k \in 1..count : score_ids[k] = user_ids[k]

(* ------------------------- insertion by batches ------------------------ *)
\* the size of the batch that starts after k of n items
ExpectedBatch(n, k) == IF n - k < batch_size THEN n - k ELSE batch_size

\* this step handles one batch of users / of leaderboard rows
UsersBatchStep == pc = "insert_users" /\ i < Len(username_list)

ScoresBatchStep == pc = "insert_leaderboard" /\ i < Len(scores)

\* the batch was stored and committed: the next ExpectedBatch items of the list,
\* and nothing else, are new rows
UsersBatchCommitted ==
    LET len == ExpectedBatch(Len(username_list), i)
        new == {user_ids'[k] : k \in (Len(user_ids) + 1)..Len(user_ids')}
    IN  /\ 1 <= len /\ len <= batch_size
        /\ Len(user_ids') = Len(user_ids) + len
        /\ SubSeq(user_ids', 1, Len(user_ids)) = user_ids
        /\ Cardinality(new) = len
        /\ new \cap DOMAIN users = {}
        /\ DOMAIN users' = DOMAIN users \union new
        /\ \A u \in DOMAIN users : users'[u] = users[u]
        /\ i' = i + batch_size
        /\ txn' = "idle"
        /\ raised' = "none" /\ pc' = pc

ScoresBatchCommitted ==
    LET len == ExpectedBatch(Len(scores), i)
        new == {score_ids'[k] : k \in (Len(score_ids) + 1)..Len(score_ids')}
    IN  /\ 1 <= len /\ len <= batch_size
        /\ Len(score_ids') = Len(score_ids) + len
        /\ SubSeq(score_ids', 1, Len(score_ids)) = score_ids
        /\ Cardinality(new) = len
        /\ new \cap DOMAIN leaderboard = {}
        /\ DOMAIN leaderboard' = DOMAIN leaderboard \union new
        /\ \A u \in DOMAIN leaderboard : leaderboard'[u] = leaderboard[u]
        /\ \A k \in (Len(score_ids) + 1)..Len(score_ids') :
              leaderboard'[score_ids'[k]].score = scores[k]
        /\ i' = i + batch_size
        /\ txn' = "idle"
        /\ raised' = "none" /\ pc' = pc

\* the batch failed: it was rolled back, nothing of it is stored, the error
\* goes up to main()
BatchFailed ==
    /\ users' = users /\ leaderboard' = leaderboard
    /\ user_ids' = user_ids /\ score_ids' = score_ids
    /\ i' = i
    /\ txn' = "idle"
    /\ raised' = "DatabaseError"
    /\ pc' = "populate_exit"

\* the run raised in insert_users_batch / in insert_leaderboard_batch
UsersInsertionFailed ==
    /\ caller = "populate" /\ raised = "DatabaseError"
    /\ StepDone("generate_usernames") /\ ~StepDone("insert_users")

ScoresInsertionFailed ==
    /\ caller = "populate" /\ raised = "DatabaseError"
    /\ StepDone("generate_scores") /\ ~StepDone("insert_leaderboard")

\* C27: both bulk insertions cut their list into consecutive batches of at most
\* batch_size items, every item in exactly one batch, and commit each batch on
\* its own; a batch that fails is rolled back and the error is raised, so that
\* exactly the items of the batches before it are stored and none of the failed
\* batch or of a later one.
C27_BatchesCommitOrStop ==
    /\ [](pc = "insert_users" =>
              /\ i % batch_size = 0
              /\ Len(user_ids) = Min2(i, Len(username_list))
              /\ txn = "idle")
    /\ [](pc = "insert_leaderboard" =>
              /\ i % batch_size = 0
              /\ Len(score_ids) = Min2(i, Len(scores))
              /\ txn = "idle")
    /\ []((caller = "populate" /\ StepDone("insert_users")) => Len(user_ids) = count)
    /\ []((caller = "populate" /\ StepDone("insert_leaderboard")) => Len(score_ids) = count)
    /\ [](UsersInsertionFailed =>
              /\ i % batch_size = 0
              /\ i < Len(username_list)
              /\ Len(user_ids) = i
              /\ \A k \in 1..i : user_ids[k] \in DOMAIN users
              /\ score_ids = <<>>)
    /\ [](ScoresInsertionFailed =>
              /\ i % batch_size = 0
              /\ i < Len(scores)
              /\ Len(score_ids) = i
              /\ \A k \in 1..i : score_ids[k] \in DOMAIN leaderboard
              /\ Len(user_ids) = count)
    /\ [][UsersBatchStep => (UsersBatchCommitted \/ BatchFailed)]_vars
    /\ [][ScoresBatchStep => (ScoresBatchCommitted \/ BatchFailed)]_vars

\* three scores in batches of two: the first batch is stored, the second, of
\* one row, failed, and the run ended with status 1
C27_Witness ==
    /\ ScoresInsertionFailed
    /\ pc = "done" /\ exit_code = 1
    /\ count = 3 /\ batch_size = 2
    /\ i = 2
    /\ score_ids = <<1, 2>>
    /\ DOMAIN leaderboard = {1, 2}
    /\ Len(user_ids) = 3
====
